---- MODULE Spec2Model ----
(***************************************************************************)
(* ir-access: fetch the routing table, keep the prefixes of the target    *)
(* ASNs, normalise them into the two prefix files, then render and apply  *)
(* the nftables ruleset.                                                   *)
(*                                                                         *)
(* A netip.Prefix is a record [fam, addr, bits]: fam is 4 or 6, addr the   *)
(* address as netip.Addr.AsSlice gives it (4 bytes) or as its eight 16-bit *)
(* groups (IPv6), bits the prefix length.  netip.ParsePrefix does not zero *)
(* the host bits, so addr may have bits set beyond the prefix length.      *)
(***************************************************************************)
EXTENDS Integers, Sequences, FiniteSets, TLC

\* ------------------------------------------------------------------ bounds
\* longest feed body, in lines
MaxRecords == 2
\* an IPv4 input block is at most this many bits shorter than /24
MaxSplitBits == 2
\* most prefixes handed to the fan-out writePrefixesToFileV4
MaxWorkers == 2

\* --------------------------------------------------------- program constants
retries == 3
defaultSSHPort == 22
\* the /24 granularity of processPrefixTo24
TargetLen == 24
\* big.Int buffer of intToIP: 4 bytes, i.e. 2^24 blocks of 256 addresses
NumSlots == 16777216

asnsToFilter ==
  << 197207, 44244, 25184, 41689, 12880, 49100, 41881, 50810,
     47330, 48159, 58224, 42337, 24631, 39501, 51469, 205647,
     31549, 57218, 25124, 42440, 60976, 16322 >>

\* ------------------------------------------------------------ netip helpers
Pow2(n) == 2 ^ n

Pfx4(a, b, c, d, bits) == [fam |-> 4, addr |-> <<a, b, c, d>>, bits |-> bits]
Pfx6(g1, g2, g3, bits) == [fam |-> 6, addr |-> <<g1, g2, g3, 0, 0, 0, 0, 0>>, bits |-> bits]

BitLen(p) == IF p.fam = 4 THEN 32 ELSE 128
\* cmp.Compare on integers
cmpCompare(x, y) == IF x < y THEN -1 ELSE IF x > y THEN 1 ELSE 0

\* netip.Addr.Compare for two addresses of the same width: big-endian order
RECURSIVE AddrCompareFrom(_, _, _)
AddrCompareFrom(a, b, i) ==
  IF i > Len(a) THEN 0
  ELSE IF a[i] # b[i] THEN cmpCompare(a[i], b[i])
  ELSE AddrCompareFrom(a, b, i + 1)

AddrCompare(a, b) ==
  IF Len(a) # Len(b) THEN cmpCompare(Len(a), Len(b)) ELSE AddrCompareFrom(a, b, 1)

\* ------------------------------------------------------ processPrefixTo24
\* big.Int of an IPv4 address, value hi * 256 + lo: hi is the number of the
\* 256-address block, lo the last byte.
ipToInt(ip) == [hi |-> ip[1] * 65536 + ip[2] * 256 + ip[3], lo |-> ip[4]]

\* FillBytes into a 4-byte buffer panics when the value needs a fifth byte.
intToIPPanics(ipInt) == ipInt.hi >= NumSlots

intToIP(ipInt) ==
  << ipInt.hi \div 65536, (ipInt.hi \div 256) % 256, ipInt.hi % 256, ipInt.lo >>

incrementIPBy24(ipInt) == [ipInt EXCEPT !.hi = @ + 1]

\* the loop of processPrefixTo24: [panic, out]
RECURSIVE SplitLoop(_, _, _, _)
SplitLoop(ipInt, i, numBlocks, acc) ==
  IF i >= numBlocks THEN [panic |-> FALSE, out |-> acc]
  ELSE IF intToIPPanics(ipInt) THEN [panic |-> TRUE, out |-> acc]
  ELSE SplitLoop(incrementIPBy24(ipInt), i + 1, numBlocks,
                 Append(acc, [fam |-> 4, addr |-> intToIP(ipInt), bits |-> TargetLen]))

\* the /24 case returning before the block is appended
processPrefixTo24DropsExact(prefix) ==
  IF prefix.bits = TargetLen THEN [panic |-> FALSE, out |-> <<>>]
  ELSE IF TargetLen - prefix.bits < 0 THEN [panic |-> TRUE, out |-> <<>>]
  ELSE SplitLoop(ipToInt(prefix.addr), 0, Pow2(TargetLen - prefix.bits), <<>>)

\* 1 << (24 - prefixLen) panics on a negative shift count.
processPrefixTo24(prefix) ==
  IF prefix.bits = TargetLen THEN [panic |-> FALSE, out |-> <<prefix>>]
  ELSE IF TargetLen - prefix.bits < 0 THEN [panic |-> TRUE, out |-> <<>>]
  ELSE SplitLoop(ipToInt(prefix.addr), 0, Pow2(TargetLen - prefix.bits), <<>>)

\* ------------------------------------------------------------ prefixCompare
prefixCompare(a, b) ==
  IF cmpCompare(BitLen(a), BitLen(b)) # 0 THEN cmpCompare(BitLen(a), BitLen(b))
  ELSE IF cmpCompare(a.bits, b.bits) # 0 THEN cmpCompare(a.bits, b.bits)
  ELSE AddrCompare(a.addr, b.addr)

\* slices.SortFunc(s, prefixCompare): insertion of each element in turn
RECURSIVE InsertSorted(_, _)
InsertSorted(s, x) ==
  IF s = <<>> THEN <<x>>
  ELSE IF prefixCompare(x, Head(s)) < 0 THEN <<x>> \o s
  ELSE <<Head(s)>> \o InsertSorted(Tail(s), x)

RECURSIVE SortFunc(_)
SortFunc(s) == IF s = <<>> THEN <<>> ELSE InsertSorted(SortFunc(Tail(s)), Head(s))

\* the keys of a Go map, in some order
RECURSIVE SetToSeq(_)
SetToSeq(S) ==
  IF S = {} THEN <<>>
  ELSE LET x == CHOOSE y \in S : TRUE IN <<x>> \o SetToSeq(S \ {x})

Range(s) == {s[i] : i \in DOMAIN s}

\* --------------------------------------------------------- String / Parse
\* netip.Prefix.String: the address text, "/", the length.  The address text
\* is the four decimal bytes, or the IPv6 groups with the trailing run of
\* zero groups written "::".
RECURSIVE DropTrailingZeros(_)
DropTrailingZeros(g) ==
  IF g # <<>> /\ g[Len(g)] = 0 THEN DropTrailingZeros(SubSeq(g, 1, Len(g) - 1)) ELSE g

PrefixString(p) ==
  IF p.fam = 4 THEN [dotted |-> TRUE, text |-> p.addr, len |-> p.bits]
  ELSE [dotted |-> FALSE, text |-> DropTrailingZeros(p.addr), len |-> p.bits]

\* netip.ParsePrefix of a line of that shape
ParsePrefix(line) ==
  IF line.dotted THEN [fam |-> 4, addr |-> line.text, bits |-> line.len]
  ELSE [fam |-> 6,
        addr |-> line.text \o [i \in 1..(8 - Len(line.text)) |-> 0],
        bits |-> line.len]

\* ------------------------------------------------------------------ the feed
\* the zero netip.Prefix: neither Is4 nor Is6, Bits() = -1
NoPrefix == [fam |-> 0, addr |-> <<>>, bits |-> -1]

InputV4 ==
  {Pfx4(198, 51, 100, 0, b) : b \in (TargetLen - MaxSplitBits)..TargetLen}
    \cup {Pfx4(198, 51, 101, 0, 23), Pfx4(198, 51, 100, 5, 24),
          Pfx4(198, 51, 100, 128, 25), Pfx4(255, 255, 255, 0, 23)}

InputV6 == {Pfx6(8193, 3512, 0, 32), Pfx6(8193, 3512, 1, 48)}

\* one line of the response body: a JSON record, or a line json.Unmarshal rejects
Lines ==
  {[ok |-> TRUE, CIDR |-> p, ASN |-> asnsToFilter[1]] : p \in InputV4 \cup InputV6}
    \cup {[ok |-> TRUE, CIDR |-> Pfx4(198, 51, 100, 0, 24), ASN |-> 64500],
          [ok |-> TRUE, CIDR |-> NoPrefix, ASN |-> asnsToFilter[2]],
          [ok |-> FALSE, CIDR |-> NoPrefix, ASN |-> 0]}

Bodies == UNION {[1..n -> Lines] : n \in 0..MaxRecords}

\* ------------------------------------------------------------ fetchPrefixes
RECURSIVE ScanLines(_, _)
ScanLines(s, i) ==
  IF i > Len(s) THEN <<>>
  ELSE IF s[i].ok THEN <<[CIDR |-> s[i].CIDR, ASN |-> s[i].ASN]>> \o ScanLines(s, i + 1)
  ELSE ScanLines(s, i + 1)

\* the loop left at the first line that does not unmarshal
ParseBodyStopAtInvalid(body) ==
  LET bad == {i \in DOMAIN body : ~body[i].ok}
      n == IF bad = {} THEN Len(body) ELSE (CHOOSE i \in bad : \A j \in bad : i <= j) - 1
  IN  ScanLines(SubSeq(body, 1, n), 1)

\* the scanner loop of fetchPrefixes: the lines that unmarshal, in order
ParseBody(body) == ScanLines(body, 1)

HasInvalidLine(body) == \E i \in DOMAIN body : ~body[i].ok

\* ------------------------------------------------------ filterPrefixesByASN
asnSet == Range(asnsToFilter)

RECURSIVE FilterFam(_, _, _)
FilterFam(prefixes, i, fam) ==
  IF i > Len(prefixes) THEN <<>>
  ELSE IF prefixes[i].ASN \in asnSet /\ prefixes[i].CIDR.fam = fam
       THEN <<prefixes[i].CIDR>> \o FilterFam(prefixes, i + 1, fam)
       ELSE FilterFam(prefixes, i + 1, fam)

\* a plain else in place of else if Is6: what is not IPv4 goes to v6
RECURSIVE FilterNotV4(_, _)
FilterNotV4(prefixes, i) ==
  IF i > Len(prefixes) THEN <<>>
  ELSE IF prefixes[i].ASN \in asnSet /\ prefixes[i].CIDR.fam # 4
       THEN <<prefixes[i].CIDR>> \o FilterNotV4(prefixes, i + 1)
       ELSE FilterNotV4(prefixes, i + 1)

filterPrefixesByASNPlainElse(prefixes) ==
  [v4 |-> FilterFam(prefixes, 1, 4), v6 |-> FilterNotV4(prefixes, 1)]

filterPrefixesByASN(prefixes) ==
  [v4 |-> FilterFam(prefixes, 1, 4), v6 |-> FilterFam(prefixes, 1, 6)]

\* --------------------------------------------------- renderNftablesTemplate
NoLine == [dotted |-> TRUE, text |-> <<>>, len |-> -1]

T(text) == [t |-> text, port |-> 0, elem |-> NoLine, comma |-> FALSE]

\* {{ $item }}{{ if lt $index (sub (len ...) 1) }},{{ end }}
Elements(prefixes) ==
  [i \in 1..Len(prefixes) |->
     [t |-> "element", port |-> 0, elem |-> PrefixString(prefixes[i]),
      comma |-> i - 1 < Len(prefixes) - 1]]

\* the set declared without the test of the list's length
SetBlockAlways(name, type, prefixes) ==
  <<T(name), T(type), T("elements = {")>> \o Elements(prefixes) \o <<T("}"), T("}")>>

SetBlock(name, type, prefixes) ==
  IF Len(prefixes) # 0
  THEN <<T(name), T(type), T("elements = {")>> \o Elements(prefixes) \o <<T("}"), T("}")>>
  ELSE <<>>

PortRule(sshdPort_) ==
  [t |-> "tcp dport accept", port |-> sshdPort_, elem |-> NoLine, comma |-> FALSE]

\* the source-set rules ahead of the port rule
ChainInputSetsFirst(sshdPort_, v4, v6) ==
  <<T("chain input {"),
    T("type filter hook input priority filter; policy drop;"),
    T("ct state established,related accept"),
    T("iif lo accept")>>
    \o (IF Len(v4) # 0 THEN <<T("ip saddr @allowed_ipv4 accept")>> ELSE <<>>)
    \o (IF Len(v6) # 0 THEN <<T("ip6 saddr @allowed_ipv6 accept")>> ELSE <<>>)
    \o <<PortRule(sshdPort_), T("}")>>

\* chain input { ... }
ChainInput(sshdPort_, v4, v6) ==
  <<T("chain input {"),
    T("type filter hook input priority filter; policy drop;"),
    T("ct state established,related accept"),
    T("iif lo accept"),
    PortRule(sshdPort_)>>
    \o (IF Len(v4) # 0 THEN <<T("ip saddr @allowed_ipv4 accept")>> ELSE <<>>)
    \o (IF Len(v6) # 0 THEN <<T("ip6 saddr @allowed_ipv6 accept")>> ELSE <<>>)
    \o <<T("}")>>

\* the document, one element per non-blank line of the template's output
renderNftablesTemplate(sshdPort_, v4, v6) ==
  <<T("#!/usr/sbin/nft -f"), T("flush ruleset"), T("table inet filter {")>>
    \o SetBlock("set allowed_ipv4 {", "type ipv4_addr; flags interval; auto-merge;", v4)
    \o SetBlock("set allowed_ipv6 {", "type ipv6_addr; flags interval; auto-merge;", v6)
    \o ChainInput(sshdPort_, v4, v6)
    \o <<T("chain forward {"),
         T("type filter hook forward priority filter; policy drop;"),
         T("}"),
         T("chain output {"),
         T("type filter hook output priority filter; policy accept;"),
         T("}"),
         T("}")>>

\* ------------------------------------------------------------- findSSHPort
\* A line of sshd_config: whether it matches ^Port\s+(\d+), and the number.
CfgLine(isPort, num) == [isPort |-> isPort, num |-> num]

\* strconv.ParseUint(s, 10, 16) fails above 65535
ParseUint16OK(num) == num < Pow2(16)

\* the loop without its break: the last line that parses wins
RECURSIVE ScanPortNoBreak(_, _)
ScanPortNoBreak(lines, i) ==
  IF i > Len(lines) THEN [found |-> FALSE, port |-> 0, warned |-> FALSE]
  ELSE LET rest == ScanPortNoBreak(lines, i + 1)
       IN  IF ~lines[i].isPort THEN rest
           ELSE IF ~ParseUint16OK(lines[i].num) THEN [rest EXCEPT !.warned = TRUE]
           ELSE IF rest.found THEN rest
           ELSE [found |-> TRUE, port |-> lines[i].num, warned |-> rest.warned]

\* the scanner loop: a line that does not match is passed over, a match whose
\* number does not parse is warned about and passed over, the first match that
\* parses ends the loop
RECURSIVE ScanPort(_, _)
ScanPort(lines, i) ==
  IF i > Len(lines) THEN [found |-> FALSE, port |-> 0, warned |-> FALSE]
  ELSE IF ~lines[i].isPort THEN ScanPort(lines, i + 1)
  ELSE IF ParseUint16OK(lines[i].num)
       THEN [found |-> TRUE, port |-> lines[i].num, warned |-> FALSE]
       ELSE [ScanPort(lines, i + 1) EXCEPT !.warned = TRUE]

\* [err, port, warned]: err when the file cannot be opened or holds no usable
\* Port line; warned when "fail to parse Port" was logged
findSSHPort(cfg) ==
  IF ~cfg.exists THEN [err |-> TRUE, port |-> 0, warned |-> FALSE]
  ELSE LET r == ScanPort(cfg.lines, 1)
       IN  [err |-> ~r.found, port |-> r.port, warned |-> r.warned]

NoConfig == [exists |-> FALSE, lines |-> <<>>]

\* sshd_config: absent or unreadable, or with two Port lines
SshdConfigs ==
  { NoConfig,
    [exists |-> TRUE,
     lines |-> <<CfgLine(FALSE, 0), CfgLine(TRUE, 2222), CfgLine(TRUE, 22)>>] }

\* more of them: a Port line out of the 16-bit range before one in range, in
\* range before out of range, no Port line, only a Port line out of range, the
\* ports 0 and 65535
SshdConfigsWide ==
  SshdConfigs \cup
  { [exists |-> TRUE, lines |-> <<CfgLine(TRUE, 70000), CfgLine(TRUE, 2222)>>],
    [exists |-> TRUE, lines |-> <<CfgLine(TRUE, 2222), CfgLine(TRUE, 70000)>>],
    [exists |-> TRUE, lines |-> <<CfgLine(FALSE, 0)>>],
    [exists |-> TRUE, lines |-> <<>>],
    [exists |-> TRUE, lines |-> <<CfgLine(TRUE, 70000)>>],
    [exists |-> TRUE, lines |-> <<CfgLine(TRUE, 0)>>],
    [exists |-> TRUE, lines |-> <<CfgLine(FALSE, 0), CfgLine(TRUE, 65535)>>] }

\* ------------------------------------------------------------ readPrefixes
\* a line that is empty after strings.TrimSpace
BlankLine == [dotted |-> TRUE, text |-> <<>>, len |-> -1]

\* a line without "/bits": netip.ParsePrefix returns an error
AddrLine(a, b, c, d) == [dotted |-> TRUE, text |-> <<a, b, c, d>>, len |-> -1]

ParsePrefixFails(line) == line.len < 0

\* the loop that passes over the lines that do not parse
RECURSIVE ScanPrefixesSkipBad(_, _, _)
ScanPrefixesSkipBad(lines, i, acc) ==
  IF i > Len(lines) THEN [err |-> FALSE, prefixes |-> acc]
  ELSE IF lines[i] = BlankLine \/ ParsePrefixFails(lines[i])
       THEN ScanPrefixesSkipBad(lines, i + 1, acc)
  ELSE ScanPrefixesSkipBad(lines, i + 1, Append(acc, ParsePrefix(lines[i])))

\* the scanner loop of readPrefixes: a blank line is passed over, a line that
\* does not parse ends the function with nil and the error
RECURSIVE ScanPrefixes(_, _, _)
ScanPrefixes(lines, i, acc) ==
  IF i > Len(lines) THEN [err |-> FALSE, prefixes |-> acc]
  ELSE IF lines[i] = BlankLine THEN ScanPrefixes(lines, i + 1, acc)
  ELSE IF ParsePrefixFails(lines[i]) THEN [err |-> TRUE, prefixes |-> <<>>]
  ELSE ScanPrefixes(lines, i + 1, Append(acc, ParsePrefix(lines[i])))

\* [err, prefixes] of a prefix file [exists, lines]
readPrefixes(file) ==
  IF ~file.exists THEN [err |-> TRUE, prefixes |-> <<>>]
  ELSE ScanPrefixes(file.lines, 1, <<>>)

\* ------------------------------------------------------------------- state
VARIABLES
  mode,            \* "fetch" or "setup": the flag main was started with
  pc,              \* position of the main goroutine
  attempt,         \* fetch attempts made
  lastErr,         \* attempt number whose error err holds, 0 for nil
  respBody,        \* resp.Body of the attempt that succeeded: its lines
  prefixes,        \* records returned by the fetch
  v4Prefixes,      \* output of filterPrefixesByASN
  v6Prefixes,
  pcW4,            \* position of the goroutine running writePrefixesToFileV4
  i4,              \* its index into v4Prefixes
  uniquePrefixes,  \* its map, as the set of keys
  split,           \* the last call of processPrefixTo24: [in, res]
  pcW6,            \* position of the goroutine running writePrefixesToFileV6
  fileV4,          \* ir_prefixes_v4.txt: [exists, lines]
  fileV6,          \* ir_prefixes_v6.txt
  nftConf,         \* /etc/nftables.conf: [exists, doc]
  sshdConfig,      \* /etc/ssh/sshd_config as findSSHPort found it: [exists, lines]
  sshdPort,        \* port startSetupNftables renders with
  cmds,            \* external commands run so far: sequence of [name, ok]
  log,             \* records logged so far
  ret,             \* what startSetupNftables returned: "" (nil) or the failed stage
  exit,            \* "running", or how the process ended: "ok", "error", "panic"
  wk,              \* fan-out writePrefixesToFileV4: its worker goroutines
  prefixChan,      \* the strings buffered in its channel
  wg,              \* its WaitGroup counter
  pcCloser,        \* position of the goroutine that waits and closes the channel
  closes,          \* close(prefixChan) calls made
  pcCollect        \* position of the goroutine running it

vars ==
  << mode, pc, attempt, lastErr, respBody, prefixes, v4Prefixes, v6Prefixes,
     pcW4, i4, uniquePrefixes, split, pcW6, fileV4, fileV6, nftConf, sshdConfig,
     sshdPort, cmds, log, ret, exit,
     wk, prefixChan, wg, pcCloser, closes, pcCollect >>

fetchVars == << attempt, lastErr, respBody, prefixes, v4Prefixes, v6Prefixes >>
w4Vars == << pcW4, i4, uniquePrefixes, split >>
setupVars == << nftConf, sshdConfig, sshdPort, cmds, ret >>
fanVars == << wk, prefixChan, wg, pcCloser, closes, pcCollect >>

Entry(lvl, msg, n) == [lvl |-> lvl, msg |-> msg, n |-> n]

\* what an earlier run left on disk
OldV4 == <<Pfx4(192, 0, 2, 0, 24)>>
OldV6 == <<Pfx6(8193, 3512, 65535, 48)>>

StringAll(ps) == [i \in 1..Len(ps) |-> PrefixString(ps[i])]

Disks ==
  { [v4 |-> [exists |-> FALSE, lines |-> <<>>],
     v6 |-> [exists |-> FALSE, lines |-> <<>>],
     conf |-> [exists |-> FALSE, doc |-> <<>>]],
    [v4 |-> [exists |-> TRUE, lines |-> StringAll(OldV4)],
     v6 |-> [exists |-> TRUE, lines |-> StringAll(OldV6)],
     conf |-> [exists |-> TRUE,
               doc |-> renderNftablesTemplate(defaultSSHPort, OldV4, OldV6)]] }

NoSplit == [in |-> NoPrefix, res |-> [panic |-> FALSE, out |-> <<>>]]

Init ==
  /\ mode \in {"fetch", "setup"}
  /\ pc = "main"
  /\ attempt = 0
  /\ lastErr = 0
  /\ respBody = <<>>
  /\ prefixes = <<>>
  /\ v4Prefixes = <<>>
  /\ v6Prefixes = <<>>
  /\ pcW4 = "idle"
  /\ i4 = 0
  /\ uniquePrefixes = {}
  /\ split = NoSplit
  /\ pcW6 = "idle"
  /\ \E d \in Disks :
       /\ fileV4 = d.v4
       /\ fileV6 = d.v6
       /\ nftConf = d.conf
  /\ sshdConfig = NoConfig
  /\ sshdPort = 0
  /\ cmds = <<>>
  /\ log = {}
  /\ ret = ""
  /\ exit = "running"
  /\ wk = <<>>
  /\ prefixChan = <<>>
  /\ wg = 0
  /\ pcCloser = "idle"
  /\ closes = 0
  /\ pcCollect = "idle"

\* ------------------------------------------------------- main, setup, fetch
\* main's switch on the flags, and setup's checks of GOOS, nft and systemctl:
\* when one fails setup returns the error and main calls fatal.
Main ==
  /\ pc = "main"
  /\ \/ /\ mode = "fetch"
        /\ log' = log \cup {Entry("INFO", "fetching IP prefixes", 0)}
        /\ pc' = "fetch"
        /\ UNCHANGED exit
     \/ /\ mode = "setup"
        /\ log' = log \cup {Entry("INFO", "running fetch operation before setup...", 0),
                            Entry("INFO", "fetching IP prefixes", 0)}
        /\ pc' = "fetch"
        /\ UNCHANGED exit
     \/ /\ mode = "setup"
        /\ log' = log \cup {Entry("ERROR", "setup: command not found", 0)}
        /\ pc' = "exited"
        /\ exit' = "error"
  /\ UNCHANGED << mode, fanVars, fetchVars, w4Vars, pcW6, fileV4, fileV6, setupVars >>

\* the error of the first failed attempt kept over the later ones
FetchAttemptFirstError ==
  /\ pc = "fetch"
  /\ attempt < retries
  /\ attempt' = attempt + 1
  /\ \/ /\ lastErr' = IF lastErr = 0 THEN attempt + 1 ELSE lastErr
        /\ log' = log \cup {Entry("WARN", "fetch failed", attempt + 1)}
        /\ UNCHANGED << respBody, prefixes, pc >>
     \/ \E body \in Bodies :
          /\ respBody' = body
          /\ prefixes' = ParseBody(body)
          /\ lastErr' = 0
          /\ log' = log \cup (IF HasInvalidLine(body)
                              THEN {Entry("WARN", "skipping invalid JSON line", 0)}
                              ELSE {})
          /\ pc' = "filter"
  /\ UNCHANGED << mode, fanVars, v4Prefixes, v6Prefixes, w4Vars, pcW6, fileV4, fileV6,
                  setupVars, exit >>

\* the loop condition as i <= retries
FetchAttemptOffByOne ==
  /\ pc = "fetch"
  /\ attempt <= retries
  /\ attempt' = attempt + 1
  /\ \/ /\ lastErr' = attempt + 1
        /\ log' = log \cup {Entry("WARN", "fetch failed", attempt + 1)}
        /\ UNCHANGED << respBody, prefixes, pc >>
     \/ \E body \in Bodies :
          /\ respBody' = body
          /\ prefixes' = ParseBody(body)
          /\ lastErr' = 0
          /\ log' = log \cup (IF HasInvalidLine(body)
                              THEN {Entry("WARN", "skipping invalid JSON line", 0)}
                              ELSE {})
          /\ pc' = "filter"
  /\ UNCHANGED << mode, fanVars, v4Prefixes, v6Prefixes, w4Vars, pcW6, fileV4, fileV6,
                  setupVars, exit >>

\* one iteration of fetchPrefixesWithRetry's loop: fetchPrefixes fails (the
\* request, a non-200 status, the scanner), or returns the lines that unmarshal
FetchAttempt ==
  /\ pc = "fetch"
  /\ attempt < retries
  /\ attempt' = attempt + 1
  /\ \/ /\ lastErr' = attempt + 1
        /\ log' = log \cup {Entry("WARN", "fetch failed", attempt + 1)}
        /\ UNCHANGED << respBody, prefixes, pc >>
     \/ \E body \in Bodies :
          /\ respBody' = body
          /\ prefixes' = ParseBody(body)
          /\ lastErr' = 0
          /\ log' = log \cup (IF HasInvalidLine(body)
                              THEN {Entry("WARN", "skipping invalid JSON line", 0)}
                              ELSE {})
          /\ pc' = "filter"
  /\ UNCHANGED << mode, fanVars, v4Prefixes, v6Prefixes, w4Vars, pcW6, fileV4, fileV6,
                  setupVars, exit >>

\* the output files created before the error is looked at
FetchGiveUpFilesCreated ==
  /\ pc = "fetch"
  /\ attempt >= retries
  /\ log' = log \cup {Entry("ERROR", "fetching prefixes failed", lastErr)}
  /\ pc' = "fetched"
  /\ fileV4' = [exists |-> TRUE, lines |-> <<>>]
  /\ fileV6' = [exists |-> TRUE, lines |-> <<>>]
  /\ UNCHANGED << mode, fanVars, fetchVars, w4Vars, pcW6, setupVars, exit >>

\* the loop ran out: "all fetch attempts failed", and startFetchPrefixes returns
FetchGiveUp ==
  /\ pc = "fetch"
  /\ attempt >= retries
  /\ log' = log \cup {Entry("ERROR", "fetching prefixes failed", lastErr)}
  /\ pc' = "fetched"
  /\ UNCHANGED << mode, fanVars, fetchVars, w4Vars, pcW6, fileV4, fileV6, setupVars, exit >>

\* filterPrefixesByASN, wg.Add(2) and the two go statements
Classify ==
  /\ pc = "filter"
  /\ LET r == filterPrefixesByASN(prefixes)
     IN  /\ v4Prefixes' = r.v4
         /\ v6Prefixes' = r.v6
  /\ pcW4' = "start"
  /\ pcW6' = "start"
  /\ pc' = "wait"
  /\ UNCHANGED << mode, fanVars, attempt, lastErr, respBody, prefixes, i4, uniquePrefixes,
                  split, fileV4, fileV6, setupVars, log, exit >>

\* ---------------------------------------------------- writePrefixesToFileV4
\* the early return on no prefixes, or os.Create
W4Start ==
  /\ pc = "wait"
  /\ pcW4 = "start"
  /\ \/ /\ Len(v4Prefixes) = 0
        /\ log' = log \cup {Entry("INFO", "no prefixes to write", 4)}
        /\ pcW4' = "done"
        /\ UNCHANGED << fileV4, i4 >>
     \/ /\ Len(v4Prefixes) # 0
        /\ fileV4' = [exists |-> TRUE, lines |-> <<>>]
        /\ pcW4' = "split"
        /\ i4' = 1
        /\ UNCHANGED log
     \/ /\ Len(v4Prefixes) # 0
        /\ log' = log \cup {Entry("ERROR", "writing IPv4 prefixes", 0)}
        /\ pcW4' = "done"
        /\ UNCHANGED << fileV4, i4 >>
  /\ UNCHANGED << mode, fanVars, pc, fetchVars, uniquePrefixes, split, pcW6, fileV6,
                  setupVars, exit >>

\* one iteration of the loop over prefixes; a panic ends the process
W4Split ==
  /\ pc = "wait"
  /\ pcW4 = "split"
  /\ i4 <= Len(v4Prefixes)
  /\ LET res == processPrefixTo24(v4Prefixes[i4])
     IN  /\ split' = [in |-> v4Prefixes[i4], res |-> res]
         /\ IF res.panic
            THEN /\ pc' = "exited"
                 /\ exit' = "panic"
                 /\ UNCHANGED << i4, uniquePrefixes >>
            ELSE /\ uniquePrefixes' = uniquePrefixes \cup Range(res.out)
                 /\ i4' = i4 + 1
                 /\ UNCHANGED << pc, exit >>
  /\ UNCHANGED << mode, fanVars, fetchVars, pcW4, pcW6, fileV4, fileV6, setupVars, log >>

\* the sort and the write loop; the deferred Flush and Close.  A failed write
\* leaves the lines flushed before it.
W4Write ==
  /\ pc = "wait"
  /\ pcW4 = "split"
  /\ i4 > Len(v4Prefixes)
  /\ LET sortedPrefixes == SortFunc(SetToSeq(uniquePrefixes))
     IN  \/ /\ fileV4' = [exists |-> TRUE, lines |-> StringAll(sortedPrefixes)]
            /\ log' = log \cup {Entry("INFO", "wrote IPv4 /24 prefixes to file", 0)}
         \/ \E k \in 0..(Len(sortedPrefixes) - 1) :
              /\ fileV4' = [exists |-> TRUE,
                            lines |-> StringAll(SubSeq(sortedPrefixes, 1, k))]
              /\ log' = log \cup {Entry("ERROR", "writing IPv4 prefixes", 0)}
  /\ pcW4' = "done"
  /\ UNCHANGED << mode, fanVars, pc, fetchVars, i4, uniquePrefixes, split, pcW6, fileV6,
                  setupVars, exit >>

\* ---------------------------------------------------- writePrefixesToFileV6
W6Start ==
  /\ pc = "wait"
  /\ pcW6 = "start"
  /\ \/ /\ Len(v6Prefixes) = 0
        /\ log' = log \cup {Entry("INFO", "no prefixes to write", 6)}
        /\ pcW6' = "done"
        /\ UNCHANGED fileV6
     \/ /\ Len(v6Prefixes) # 0
        /\ fileV6' = [exists |-> TRUE, lines |-> <<>>]
        /\ pcW6' = "write"
        /\ UNCHANGED log
     \/ /\ Len(v6Prefixes) # 0
        /\ log' = log \cup {Entry("ERROR", "writing IPv6 prefixes", 0)}
        /\ pcW6' = "done"
        /\ UNCHANGED fileV6
  /\ UNCHANGED << mode, fanVars, pc, fetchVars, w4Vars, fileV4, setupVars, exit >>

\* the copy, the sort and the write loop
W6Write ==
  /\ pc = "wait"
  /\ pcW6 = "write"
  /\ LET sortedPrefixes == SortFunc(v6Prefixes)
     IN  \/ /\ fileV6' = [exists |-> TRUE, lines |-> StringAll(sortedPrefixes)]
            /\ log' = log \cup {Entry("INFO", "wrote IPv6 prefixes to file", 0)}
         \/ \E k \in 0..(Len(sortedPrefixes) - 1) :
              /\ fileV6' = [exists |-> TRUE,
                            lines |-> StringAll(SubSeq(sortedPrefixes, 1, k))]
              /\ log' = log \cup {Entry("ERROR", "writing IPv6 prefixes", 0)}
  /\ pcW6' = "done"
  /\ UNCHANGED << mode, fanVars, pc, fetchVars, w4Vars, fileV4, setupVars, exit >>

\* wg.Add(1) in place of wg.Add(2): the wait ends with the first writer
JoinAfterFirstWriter ==
  /\ pc = "wait"
  /\ pcW4 = "done" \/ pcW6 = "done"
  /\ log' = log \cup {Entry("INFO", "processing complete", 0)}
  /\ pc' = "fetched"
  /\ UNCHANGED << mode, fanVars, fetchVars, w4Vars, pcW6, fileV4, fileV6, setupVars, exit >>

\* wg.Wait() returns; "processing complete"
Join ==
  /\ pc = "wait"
  /\ pcW4 = "done"
  /\ pcW6 = "done"
  /\ log' = log \cup {Entry("INFO", "processing complete", 0)}
  /\ pc' = "fetched"
  /\ UNCHANGED << mode, fanVars, fetchVars, w4Vars, pcW6, fileV4, fileV6, setupVars, exit >>

\* setup returning after a fetch that logged an error
FetchReturnAbortOnFailure ==
  /\ pc = "fetched"
  /\ IF mode = "fetch" \/ \E e \in log : e.lvl = "ERROR"
     THEN /\ pc' = "exited"
          /\ exit' = "ok"
     ELSE /\ pc' = "findport"
          /\ UNCHANGED exit
  /\ UNCHANGED << mode, fanVars, fetchVars, w4Vars, pcW6, fileV4, fileV6, setupVars, log >>

\* fetch returned: main is done (fetch mode), or setup goes on
FetchReturn ==
  /\ pc = "fetched"
  /\ IF mode = "fetch"
     THEN /\ pc' = "exited"
          /\ exit' = "ok"
     ELSE /\ pc' = "findport"
          /\ UNCHANGED exit
  /\ UNCHANGED << mode, fanVars, fetchVars, w4Vars, pcW6, fileV4, fileV6, setupVars, log >>

\* ------------------------------------------------------ startSetupNftables
\* the error of findSSHPort returned in place of the fallback
FindPortInNoFallback(configs) ==
  /\ pc = "findport"
  /\ \E cfg \in configs :
       LET r == findSSHPort(cfg)
           parseLog == IF r.warned THEN {Entry("WARN", "fail to parse Port", 0)} ELSE {}
       IN  /\ sshdConfig' = cfg
           /\ log' = log \cup parseLog
           /\ IF r.err
              THEN /\ ret' = "failed to find ssh port"
                   /\ pc' = "return"
                   /\ UNCHANGED sshdPort
              ELSE /\ sshdPort' = r.port
                   /\ pc' = "init"
                   /\ UNCHANGED ret
  /\ UNCHANGED << mode, fanVars, fetchVars, w4Vars, pcW6, fileV4, fileV6, nftConf, cmds,
                  exit >>

\* findSSHPort and the fallback to the default port
FindPortIn(configs) ==
  /\ pc = "findport"
  /\ \E cfg \in configs :
       LET r == findSSHPort(cfg)
           parseLog == IF r.warned THEN {Entry("WARN", "fail to parse Port", 0)} ELSE {}
       IN  /\ sshdConfig' = cfg
           /\ IF r.err
              THEN /\ sshdPort' = defaultSSHPort
                   /\ log' = log \cup parseLog
                               \cup {Entry("WARN", "using default port", defaultSSHPort)}
              ELSE /\ sshdPort' = r.port
                   /\ log' = log \cup parseLog
  /\ pc' = "init"
  /\ UNCHANGED << mode, fanVars, fetchVars, w4Vars, pcW6, fileV4, fileV6, nftConf, cmds,
                  ret, exit >>

FindPort == FindPortIn(SshdConfigs)

FindPortWide == FindPortIn(SshdConfigsWide)

\* a nil check in place of the length check: the lists of missing files are
\* empty but not nil
PrefixListsEmptyNilCheck(r4, r6) ==
  /\ ~r4.err /\ Len(r4.prefixes) = 0
  /\ ~r6.err /\ Len(r6.prefixes) = 0

\* || in place of &&: one empty list is enough
PrefixListsEmptyEither(r4, r6) ==
  \/ Len(IF r4.err THEN <<>> ELSE r4.prefixes) = 0
  \/ Len(IF r6.err THEN <<>> ELSE r6.prefixes) = 0

\* len(ipv4Prefixes) == 0 && len(ipv6Prefixes) == 0, a failed read counting as
\* the empty list
PrefixListsEmpty(r4, r6) ==
  /\ Len(IF r4.err THEN <<>> ELSE r4.prefixes) = 0
  /\ Len(IF r6.err THEN <<>> ELSE r6.prefixes) = 0

\* the document opened for appending in place of os.Create
InitConfAppend ==
  /\ pc = "init"
  /\ LET r4 == readPrefixes(fileV4)
         r6 == readPrefixes(fileV6)
         ipv4Prefixes == IF r4.err THEN <<>> ELSE r4.prefixes
         ipv6Prefixes == IF r6.err THEN <<>> ELSE r6.prefixes
         readLog ==
           (IF r4.err THEN {Entry("ERROR", "failed to read prefixes file", 4)} ELSE {})
             \cup (IF r6.err THEN {Entry("ERROR", "failed to read prefixes file", 6)}
                   ELSE {})
     IN  /\ log' = log \cup readLog
         /\ IF PrefixListsEmpty(r4, r6)
            THEN /\ ret' = "prefix lists empty"
                 /\ pc' = "return"
                 /\ UNCHANGED nftConf
            ELSE \/ /\ nftConf' =
                         [exists |-> TRUE,
                          doc |-> nftConf.doc
                                    \o renderNftablesTemplate(sshdPort, ipv4Prefixes,
                                                              ipv6Prefixes)]
                    /\ pc' = "load"
                    /\ UNCHANGED ret
                 \/ /\ ret' = "error creating nftables.conf"
                    /\ pc' = "return"
                    /\ UNCHANGED nftConf
                 \/ /\ nftConf' = [exists |-> TRUE, doc |-> <<>>]
                    /\ ret' = "failed writing nftables.conf"
                    /\ pc' = "return"
  /\ UNCHANGED << mode, fanVars, fetchVars, w4Vars, pcW6, fileV4, fileV6, sshdConfig,
                  sshdPort, cmds, exit >>

\* initializeNftablesConf: read both files, refuse two empty lists, render,
\* create and write the document
InitConf ==
  /\ pc = "init"
  /\ LET r4 == readPrefixes(fileV4)
         r6 == readPrefixes(fileV6)
         ipv4Prefixes == IF r4.err THEN <<>> ELSE r4.prefixes
         ipv6Prefixes == IF r6.err THEN <<>> ELSE r6.prefixes
         readLog ==
           (IF r4.err THEN {Entry("ERROR", "failed to read prefixes file", 4)} ELSE {})
             \cup (IF r6.err THEN {Entry("ERROR", "failed to read prefixes file", 6)}
                   ELSE {})
     IN  /\ log' = log \cup readLog
         /\ IF PrefixListsEmpty(r4, r6)
            THEN /\ ret' = "prefix lists empty"
                 /\ pc' = "return"
                 /\ UNCHANGED nftConf
            ELSE \/ /\ nftConf' =
                         [exists |-> TRUE,
                          doc |-> renderNftablesTemplate(sshdPort, ipv4Prefixes,
                                                         ipv6Prefixes)]
                    /\ pc' = "load"
                    /\ UNCHANGED ret
                 \/ /\ ret' = "error creating nftables.conf"
                    /\ pc' = "return"
                    /\ UNCHANGED nftConf
                 \/ /\ nftConf' = [exists |-> TRUE, doc |-> <<>>]
                    /\ ret' = "failed writing nftables.conf"
                    /\ pc' = "return"
  /\ UNCHANGED << mode, fanVars, fetchVars, w4Vars, pcW6, fileV4, fileV6, sshdConfig,
                  sshdPort, cmds, exit >>

\* the error of nft -f logged but not returned
LoadErrorNotReturned ==
  /\ pc = "load"
  /\ \E ok \in BOOLEAN :
       /\ cmds' = Append(cmds, [name |-> "nft -f", ok |-> ok])
       /\ pc' = "enable"
       /\ UNCHANGED ret
  /\ UNCHANGED << mode, fanVars, fetchVars, w4Vars, pcW6, fileV4, fileV6, nftConf, sshdConfig,
                  sshdPort,
                  log, exit >>

\* applyNftables, first command: nft -f /etc/nftables.conf
Load ==
  /\ pc = "load"
  /\ \E ok \in BOOLEAN :
       /\ cmds' = Append(cmds, [name |-> "nft -f", ok |-> ok])
       /\ IF ok
          THEN /\ pc' = "enable"
               /\ UNCHANGED ret
          ELSE /\ ret' = "failed to apply nftables configuration"
               /\ pc' = "return"
  /\ UNCHANGED << mode, fanVars, fetchVars, w4Vars, pcW6, fileV4, fileV6, nftConf, sshdConfig,
                  sshdPort,
                  log, exit >>

\* the error of systemctl logged but not returned
EnableErrorNotReturned ==
  /\ pc = "enable"
  /\ \E ok \in BOOLEAN :
       /\ cmds' = Append(cmds, [name |-> "systemctl enable --now", ok |-> ok])
       /\ pc' = "verify"
       /\ log' = log \cup {Entry("INFO", "configuration applied", 0)}
       /\ UNCHANGED ret
  /\ UNCHANGED << mode, fanVars, fetchVars, w4Vars, pcW6, fileV4, fileV6, nftConf, sshdConfig,
                  sshdPort, exit >>

\* applyNftables, second command: systemctl enable --now nftables
Enable ==
  /\ pc = "enable"
  /\ \E ok \in BOOLEAN :
       /\ cmds' = Append(cmds, [name |-> "systemctl enable --now", ok |-> ok])
       /\ IF ok
          THEN /\ pc' = "verify"
               /\ log' = log \cup {Entry("INFO", "configuration applied", 0)}
               /\ UNCHANGED ret
          ELSE /\ ret' = "failed to enable and start nftables services"
               /\ pc' = "return"
               /\ UNCHANGED log
  /\ UNCHANGED << mode, fanVars, fetchVars, w4Vars, pcW6, fileV4, fileV6, nftConf, sshdConfig,
                  sshdPort,
                  exit >>

\* verifyNftables: nft list ruleset
Verify ==
  /\ pc = "verify"
  /\ \E ok \in BOOLEAN :
       /\ cmds' = Append(cmds, [name |-> "nft list ruleset", ok |-> ok])
       /\ IF ok
          THEN /\ log' = log \cup {Entry("INFO", "nftables setup is complete", 0)}
               /\ UNCHANGED ret
          ELSE /\ ret' = "failed to verify nftables ruleset"
               /\ UNCHANGED log
  /\ pc' = "return"
  /\ UNCHANGED << mode, fanVars, fetchVars, w4Vars, pcW6, fileV4, fileV6, nftConf, sshdConfig,
                  sshdPort,
                  exit >>

\* setup drops what startSetupNftables returned and returns nil; main ends
SetupReturn ==
  /\ pc = "return"
  /\ pc' = "exited"
  /\ exit' = "ok"
  /\ UNCHANGED << mode, fanVars, fetchVars, w4Vars, pcW6, fileV4, fileV6, setupVars, log >>

Next ==
  \/ Main
  \/ FetchAttempt
  \/ FetchGiveUp
  \/ Classify
  \/ W4Start
  \/ W4Split
  \/ W4Write
  \/ W6Start
  \/ W6Write
  \/ Join
  \/ FetchReturn
  \/ FindPort
  \/ InitConf
  \/ Load
  \/ Enable
  \/ Verify
  \/ SetupReturn

Spec == Init /\ [][Next]_vars

\* ------------------------------------------- startSetupNftables on its own
\* what earlier runs can have left: nothing, both prefix files, one of them,
\* one of them created and not written; and files changed by hand since: a
\* line without its "/24" after a good line, with and without a good v6 file,
\* and a blank line between two good lines
SetupDisks ==
  Disks \cup
  { [v4 |-> [exists |-> TRUE,
             lines |-> StringAll(OldV4) \o <<AddrLine(198, 51, 100, 0)>>],
     v6 |-> [exists |-> TRUE, lines |-> StringAll(OldV6)],
     conf |-> [exists |-> TRUE,
               doc |-> renderNftablesTemplate(defaultSSHPort, OldV4, OldV6)]],
    [v4 |-> [exists |-> TRUE,
             lines |-> StringAll(OldV4) \o <<AddrLine(198, 51, 100, 0)>>],
     v6 |-> [exists |-> FALSE, lines |-> <<>>],
     conf |-> [exists |-> TRUE,
               doc |-> renderNftablesTemplate(defaultSSHPort, OldV4, <<>>)]],
    [v4 |-> [exists |-> TRUE,
             lines |-> StringAll(OldV4) \o <<BlankLine>>
                         \o StringAll(<<Pfx4(198, 51, 100, 0, 24)>>)],
     v6 |-> [exists |-> TRUE,
             lines |-> StringAll(OldV6) \o <<[dotted |-> FALSE, text |-> <<8193>>, len |-> -1]>>],
     conf |-> [exists |-> FALSE, doc |-> <<>>]],
    [v4 |-> [exists |-> TRUE, lines |-> <<>>],
     v6 |-> [exists |-> TRUE, lines |-> StringAll(OldV6)],
     conf |-> [exists |-> TRUE,
               doc |-> renderNftablesTemplate(defaultSSHPort, <<>>, OldV6)]],
    [v4 |-> [exists |-> TRUE, lines |-> StringAll(OldV4)],
     v6 |-> [exists |-> FALSE, lines |-> <<>>],
     conf |-> [exists |-> TRUE,
               doc |-> renderNftablesTemplate(defaultSSHPort, OldV4, <<>>)]],
    [v4 |-> [exists |-> FALSE, lines |-> <<>>],
     v6 |-> [exists |-> TRUE, lines |-> StringAll(OldV6)],
     conf |-> [exists |-> TRUE,
               doc |-> renderNftablesTemplate(defaultSSHPort, <<>>, OldV6)]] }

\* the log of a setup run whose fetch ended with the terminal error
FailedFetchLog ==
  {Entry("INFO", "running fetch operation before setup...", 0),
   Entry("INFO", "fetching IP prefixes", 0),
   Entry("ERROR", "fetching prefixes failed", retries)}
    \cup {Entry("WARN", "fetch failed", k) : k \in 1..retries}

\* setup calls startSetupNftables after a fetch that wrote nothing
SetupInit ==
  /\ mode = "setup"
  /\ pc = "findport"
  /\ attempt = retries
  /\ lastErr = retries
  /\ respBody = <<>>
  /\ prefixes = <<>>
  /\ v4Prefixes = <<>>
  /\ v6Prefixes = <<>>
  /\ pcW4 = "idle"
  /\ i4 = 0
  /\ uniquePrefixes = {}
  /\ split = NoSplit
  /\ pcW6 = "idle"
  /\ \E d \in SetupDisks :
       /\ fileV4 = d.v4
       /\ fileV6 = d.v6
       /\ nftConf = d.conf
  /\ sshdConfig = NoConfig
  /\ sshdPort = 0
  /\ cmds = <<>>
  /\ log = FailedFetchLog
  /\ ret = ""
  /\ exit = "running"
  /\ wk = <<>>
  /\ prefixChan = <<>>
  /\ wg = 0
  /\ pcCloser = "idle"
  /\ closes = 0
  /\ pcCollect = "idle"

SetupNext ==
  \/ FindPortWide
  \/ InitConf
  \/ Load
  \/ Enable
  \/ Verify
  \/ SetupReturn

SpecSetup == SetupInit /\ [][SetupNext]_vars

\* ------------------------------- writePrefixesToFileV4, the fan-out variant
\* One goroutine per prefix sends the /24 strings over prefixChan (capacity
\* len(prefixes)); one more waits for them and closes the channel; the caller
\* collects into uniquePrefixes (here the map's keys are the strings), sorts
\* with sort.Strings and writes.

\* the bytes of a decimal number and of an IPv4 prefix string
RECURSIVE Decimal(_)
Decimal(n) == IF n < 10 THEN <<48 + n>> ELSE Append(Decimal(n \div 10), 48 + (n % 10))

Bytes(line) ==
  Decimal(line.text[1]) \o <<46>> \o Decimal(line.text[2]) \o <<46>> \o
  Decimal(line.text[3]) \o <<46>> \o Decimal(line.text[4]) \o <<47>> \o
  Decimal(line.len)

\* Go's < on strings: byte by byte, a proper prefix first
RECURSIVE BytesLess(_, _)
BytesLess(x, y) ==
  IF y = <<>> THEN FALSE
  ELSE IF x = <<>> THEN TRUE
  ELSE IF Head(x) # Head(y) THEN Head(x) < Head(y)
  ELSE BytesLess(Tail(x), Tail(y))

RECURSIVE InsertString(_, _)
InsertString(s, x) ==
  IF s = <<>> THEN <<x>>
  ELSE IF BytesLess(Bytes(x), Bytes(Head(s))) THEN <<x>> \o s
  ELSE <<Head(s)>> \o InsertString(Tail(s), x)

\* sort.Strings
RECURSIVE SortStrings(_)
SortStrings(s) ==
  IF s = <<>> THEN <<>> ELSE InsertString(SortStrings(Tail(s)), Head(s))

\* a worker goroutine at its start
Worker(p) ==
  [pc |-> "start", prefix |-> p, ipInt |-> ipToInt(p.addr), i |-> 0,
   numBlocks |-> 0, val |-> NoLine]

\* the prefixes the variant is called with: a /23, its second half as a /24,
\* a /24 whose string sorts after theirs, a /25, and the last /23 of the
\* address space with a host bit set
FanPrefixes ==
  { Pfx4(198, 51, 100, 0, 23), Pfx4(198, 51, 101, 0, 24), Pfx4(198, 51, 99, 0, 24),
    Pfx4(198, 51, 100, 128, 25), Pfx4(255, 255, 255, 0, 23) }

FanInputs == UNION {[1..n -> FanPrefixes] : n \in 0..MaxWorkers}

FanInit ==
  /\ mode = "fetch"
  /\ pc = "wait"
  /\ attempt = 1
  /\ lastErr = 0
  /\ respBody = <<>>
  /\ prefixes = <<>>
  /\ v4Prefixes \in FanInputs
  /\ v6Prefixes = <<>>
  /\ pcW4 = "idle"
  /\ i4 = 0
  /\ uniquePrefixes = {}
  /\ split = NoSplit
  /\ pcW6 = "idle"
  /\ fileV4 \in {[exists |-> FALSE, lines |-> <<>>],
                 [exists |-> TRUE, lines |-> StringAll(OldV4)]}
  /\ fileV6 = [exists |-> FALSE, lines |-> <<>>]
  /\ nftConf = [exists |-> FALSE, doc |-> <<>>]
  /\ sshdConfig = NoConfig
  /\ sshdPort = 0
  /\ cmds = <<>>
  /\ log = {}
  /\ ret = ""
  /\ exit = "running"
  /\ wk = <<>>
  /\ prefixChan = <<>>
  /\ wg = 0
  /\ pcCloser = "idle"
  /\ closes = 0
  /\ pcCollect = "start"

fanFrame ==
  << mode, pc, fetchVars, pcW4, i4, split, pcW6, fileV6, setupVars >>

\* up to the collector loop: the empty case, os.Create, the map and the
\* channel, wg.Add(1) and go for each prefix, go for the closer
FanStart ==
  /\ exit = "running"
  /\ pcCollect = "start"
  /\ \/ /\ Len(v4Prefixes) = 0
        /\ log' = log \cup {Entry("INFO", "no prefixes to write", 4)}
        /\ pcCollect' = "done"
        /\ UNCHANGED << fileV4, uniquePrefixes, wk, wg, pcCloser >>
     \/ /\ Len(v4Prefixes) # 0
        /\ fileV4' = [exists |-> TRUE, lines |-> <<>>]
        /\ uniquePrefixes' = {}
        /\ wk' = [w \in 1..Len(v4Prefixes) |-> Worker(v4Prefixes[w])]
        /\ wg' = Len(v4Prefixes)
        /\ pcCloser' = "wait"
        /\ pcCollect' = "range"
        /\ UNCHANGED log
     \/ /\ Len(v4Prefixes) # 0
        /\ log' = log \cup {Entry("ERROR", "writing IPv4 prefixes", 0)}
        /\ pcCollect' = "done"
        /\ UNCHANGED << fileV4, uniquePrefixes, wk, wg, pcCloser >>
  /\ UNCHANGED << fanFrame, prefixChan, closes, exit >>

\* a worker's panic: its deferred wg.Done runs, then the runtime ends the
\* process (Crash)
Panicked(w) ==
  /\ wk' = [wk EXCEPT ![w].pc = "panic"]
  /\ wg' = wg - 1

\* the worker's return: its deferred wg.Done
Returned(w) ==
  /\ wk' = [wk EXCEPT ![w].pc = "done"]
  /\ wg' = wg - 1

\* processPrefixTo24 between two sends: the /24 case, the shift, the loop
\* test and intToIP
WorkerRun(w) ==
  /\ exit = "running"
  /\ wk[w].pc \in {"start", "loop", "ret"}
  /\ LET p == wk[w].prefix
     IN  IF wk[w].pc = "start"
         THEN IF p.bits = TargetLen
              THEN /\ wk' = [wk EXCEPT ![w].pc = "sendret", ![w].val = PrefixString(p)]
                   /\ UNCHANGED wg
              ELSE IF TargetLen - p.bits < 0
              THEN Panicked(w)
              ELSE /\ wk' = [wk EXCEPT ![w].pc = "loop",
                                       ![w].numBlocks = Pow2(TargetLen - p.bits)]
                   /\ UNCHANGED wg
         ELSE IF wk[w].pc = "ret" \/ wk[w].i >= wk[w].numBlocks
         THEN Returned(w)
         ELSE IF intToIPPanics(wk[w].ipInt)
         THEN Panicked(w)
         ELSE /\ wk' = [wk EXCEPT ![w].pc = "send",
                                  ![w].val = PrefixString([fam |-> 4,
                                                           addr |-> intToIP(wk[w].ipInt),
                                                           bits |-> TargetLen])]
              /\ UNCHANGED wg
  /\ UNCHANGED << fanFrame, fileV4, uniquePrefixes, prefixChan, pcCloser, closes,
                  pcCollect, log, exit >>

\* prefixChan <- val: waits while the buffer is full, panics on a closed
\* channel; then return (the /24 case) or incrementIPBy24 and i++
WorkerSend(w) ==
  /\ exit = "running"
  /\ wk[w].pc \in {"send", "sendret"}
  /\ IF closes > 0
     THEN /\ Panicked(w)
          /\ UNCHANGED prefixChan
     ELSE /\ Len(prefixChan) < Len(v4Prefixes)
          /\ prefixChan' = Append(prefixChan, wk[w].val)
          /\ wk' = [wk EXCEPT ![w].pc = IF @ = "sendret" THEN "ret" ELSE "loop",
                              ![w].ipInt = IF wk[w].pc = "sendret" THEN @
                                           ELSE incrementIPBy24(@),
                              ![w].i = IF wk[w].pc = "sendret" THEN @ ELSE @ + 1]
          /\ UNCHANGED wg
  /\ UNCHANGED << fanFrame, fileV4, uniquePrefixes, pcCloser, closes, pcCollect,
                  log, exit >>

WorkersRun == \E w \in DOMAIN wk : WorkerRun(w)

WorkersSend == \E w \in DOMAIN wk : WorkerSend(w)

\* go func() { wg.Wait(); close(prefixChan) }()
Closer ==
  /\ exit = "running"
  /\ pcCloser = "wait"
  /\ wg = 0
  /\ closes' = closes + 1
  /\ pcCloser' = "done"
  /\ UNCHANGED << fanFrame, fileV4, uniquePrefixes, wk, prefixChan, wg, pcCollect,
                  log, exit >>

\* for prefix := range prefixChan: one value received and put in the map
CollectRecv ==
  /\ exit = "running"
  /\ pcCollect = "range"
  /\ prefixChan # <<>>
  /\ uniquePrefixes' = uniquePrefixes \cup {Head(prefixChan)}
  /\ prefixChan' = Tail(prefixChan)
  /\ UNCHANGED << fanFrame, fileV4, wk, wg, pcCloser, closes, pcCollect, log, exit >>

\* the range loop ends when the channel is closed and drained
CollectEnd ==
  /\ exit = "running"
  /\ pcCollect = "range"
  /\ prefixChan = <<>>
  /\ closes > 0
  /\ pcCollect' = "sort"
  /\ UNCHANGED << fanFrame, fileV4, uniquePrefixes, wk, prefixChan, wg, pcCloser,
                  closes, log, exit >>

\* the keys copied out of the map, sort.Strings, the write loop; the deferred
\* Flush and Close.  A failed write leaves the lines flushed before it.
FanWrite ==
  /\ exit = "running"
  /\ pcCollect = "sort"
  /\ LET sortedPrefixes == SortStrings(SetToSeq(uniquePrefixes))
     IN  \/ /\ fileV4' = [exists |-> TRUE, lines |-> sortedPrefixes]
            /\ log' = log \cup {Entry("INFO", "wrote IPv4 /24 prefixes to file", 0)}
         \/ \E k \in 0..(Len(sortedPrefixes) - 1) :
              /\ fileV4' = [exists |-> TRUE, lines |-> SubSeq(sortedPrefixes, 1, k)]
              /\ log' = log \cup {Entry("ERROR", "writing IPv4 prefixes", 0)}
  /\ pcCollect' = "done"
  /\ UNCHANGED << fanFrame, uniquePrefixes, wk, prefixChan, wg, pcCloser, closes,
                  exit >>

\* the runtime ends the process after a goroutine's panic
Crash ==
  /\ exit = "running"
  /\ \E w \in DOMAIN wk : wk[w].pc = "panic"
  /\ exit' = "panic"
  /\ UNCHANGED << fanFrame, fileV4, uniquePrefixes, fanVars, log >>

FanNext ==
  \/ FanStart
  \/ WorkersRun
  \/ WorkersSend
  \/ Closer
  \/ CollectRecv
  \/ CollectEnd
  \/ FanWrite
  \/ Crash

SpecFanOut == FanInit /\ [][FanNext]_vars

\* ------------------------------------------------------------------ claims
\* width of one element of addr
UnitBits(p) == IF p.fam = 4 THEN 8 ELSE 16


\* The first n bits of address a (units of w bits), as the sequence of whole
\* units followed by the top bits of the next one.
LeadingBits(a, w, n) ==
  LET full == n \div w
      rest == n % w
  IN  IF rest = 0 THEN SubSeq(a, 1, full)
      ELSE Append(SubSeq(a, 1, full), a[full + 1] \div Pow2(w - rest))

\* netip.Prefix.Contains(q.Addr()): q's address lies in p's address range
ContainsAddr(p, q) ==
  /\ p.fam = q.fam
  /\ LeadingBits(p.addr, UnitBits(p), p.bits) = LeadingBits(q.addr, UnitBits(p), p.bits)

\* "Two blocks overlap if either contains the other's network address."
Overlap(p, q) == ContainsAddr(p, q) \/ ContainsAddr(q, p)

\* no host bit set beyond the prefix length (p = p.Masked())
IsMasked(p) ==
  \A i \in 1..Len(p.addr) :
     LET lo == (i - 1) * UnitBits(p)
         hi == i * UnitBits(p)
     IN  IF p.bits >= hi THEN TRUE
         ELSE IF p.bits <= lo THEN p.addr[i] = 0
         ELSE p.addr[i] % Pow2(hi - p.bits) = 0

\* the 256-address blocks an IPv4 prefix of length at most 24 covers
BlockRange(p) ==
  LET n == Pow2(TargetLen - p.bits)
      first == (ipToInt(p.addr).hi \div n) * n
  IN  first..(first + n - 1)

ParseAll(lines) == [i \in 1..Len(lines) |-> ParsePrefix(lines[i])]

WroteV4 == Entry("INFO", "wrote IPv4 /24 prefixes to file", 0) \in log
WroteV6 == Entry("INFO", "wrote IPv6 prefixes to file", 0) \in log

\* C1: whenever processPrefixTo24 returns for an IPv4 block of length p < 24,
\* it has given exactly 2^(24-p) distinct /24 blocks, no two of which overlap
\* and whose address ranges together are exactly the input block's range.
C1_DecompositionExact ==
  (split.in.fam = 4 /\ split.in.bits < TargetLen /\ ~split.res.panic) =>
    LET out == split.res.out
    IN  /\ Len(out) = Pow2(TargetLen - split.in.bits)
        /\ Cardinality(Range(out)) = Len(out)
        /\ \A i \in DOMAIN out : out[i].bits = TargetLen
        /\ \A i, j \in DOMAIN out : i # j => ~Overlap(out[i], out[j])
        /\ UNION {BlockRange(out[i]) : i \in DOMAIN out} = BlockRange(split.in)

\* C2: an IPv4 block longer than /24 is kept as it is: processPrefixTo24 returns
\* for it, and once writePrefixesToFileV4 has written, its CIDR is a line of
\* the file.
C2_LongPrefixRetained ==
  \A i \in DOMAIN v4Prefixes :
    v4Prefixes[i].bits > TargetLen =>
      /\ (split.in = v4Prefixes[i] => ~split.res.panic)
      /\ (WroteV4 => PrefixString(v4Prefixes[i]) \in Range(fileV4.lines))

\* C3: a run in which startSetupNftables returned the fatal-empty error or the
\* load error ends with an error exit and with that error logged.
C3_FatalSurfaced ==
  (pc = "exited" /\ ret \in {"prefix lists empty",
                             "failed to apply nftables configuration"}) =>
    /\ exit = "error"
    /\ \E e \in log : e.lvl = "ERROR" /\ e.msg = ret

\* C4: once nft -f has returned a non-zero status, systemctl enable is not
\* among the commands run after it.
C4_NoEnableAfterFailedLoad ==
  \A i \in DOMAIN cmds :
    (cmds[i].name = "nft -f" /\ ~cmds[i].ok) =>
      \A j \in DOMAIN cmds : j > i => cmds[j].name # "systemctl enable --now"

C4_Witness ==
  /\ pc = "exited"
  /\ \E i \in DOMAIN cmds : cmds[i].name = "nft -f" /\ ~cmds[i].ok

\* C5: when initializeNftablesConf runs with both prefix files empty or missing
\* it returns "prefix lists empty" and leaves /etc/nftables.conf as it is; from
\* then on the document stays as it is and no command is run.
BothEmptyOrMissing ==
  /\ ~fileV4.exists \/ fileV4.lines = <<>>
  /\ ~fileV6.exists \/ fileV6.lines = <<>>

C5_FatalEmpty ==
  /\ [][(pc = "init" /\ BothEmptyOrMissing) =>
          (ret' = "prefix lists empty" /\ nftConf' = nftConf /\ cmds' = cmds)]_vars
  /\ [][ret = "prefix lists empty" => (nftConf' = nftConf /\ cmds' = cmds)]_vars
  /\ [](ret = "prefix lists empty" => cmds = <<>>)

C5_Witness ==
  /\ pc = "exited"
  /\ ret = "prefix lists empty"
  /\ nftConf.exists
  /\ fileV4.exists
  /\ ~fileV6.exists \/ fileV6.lines = <<>>

\* C6: when the fetch succeeded and both writers returned without an error,
\* each prefix file holds the blocks of this run's set for its family and
\* nothing else, also when that set is empty.
C6_FilesOverwritten ==
  (Entry("INFO", "processing complete", 0) \in log
     /\ ~\E e \in log : e.lvl = "ERROR") =>
    /\ Range(fileV4.lines) =
         {PrefixString(q) :
            q \in UNION {Range(processPrefixTo24(p).out) : p \in Range(v4Prefixes)}}
    /\ Range(fileV6.lines) = {PrefixString(p) : p \in Range(v6Prefixes)}

\* C7: when the IPv4 blocks all have length at most 24, the lines
\* writePrefixesToFileV4 wrote are /24 blocks named by their network address,
\* no line occurs twice and no two lines overlap.
C7_V4LinesDisjoint24 ==
  (WroteV4 /\ \A i \in DOMAIN v4Prefixes : v4Prefixes[i].bits <= TargetLen) =>
    LET w == ParseAll(fileV4.lines)
    IN  /\ \A i \in DOMAIN w : w[i].bits = TargetLen /\ IsMasked(w[i])
        /\ \A i, j \in DOMAIN w : i # j => (w[i] # w[j] /\ ~Overlap(w[i], w[j]))

\* C8: the lines writePrefixesToFileV6 wrote are the distinct input blocks,
\* each once.
C8_V6Deduplicated ==
  WroteV6 =>
    /\ Range(fileV6.lines) = {PrefixString(p) : p \in Range(v6Prefixes)}
    /\ Len(fileV6.lines) = Cardinality(Range(v6Prefixes))

\* C9: in each prefix file no block contains the network address of another
\* block of the file.
NoOverlapIn(file) ==
  LET w == ParseAll(file.lines)
  IN  \A i, j \in DOMAIN w : w[i] # w[j] => ~Overlap(w[i], w[j])

C9_NoOverlap == NoOverlapIn(fileV4) /\ NoOverlapIn(fileV6)

\* C10: in each prefix file every line is strictly below the next one under
\* prefixCompare.
StrictlyAscending(file) ==
  LET w == ParseAll(file.lines)
  IN  \A i \in 1..(Len(w) - 1) : prefixCompare(w[i], w[i + 1]) < 0

C10_StrictlyAscending == StrictlyAscending(fileV4) /\ StrictlyAscending(fileV6)

\* what writePrefixesToFileV4 writes for a list it gets through without a
\* write error: [panic, lines]
NormalizeV4(ps) ==
  LET res == [i \in DOMAIN ps |-> processPrefixTo24(ps[i])]
  IN  IF \E i \in DOMAIN ps : res[i].panic
      THEN [panic |-> TRUE, lines |-> <<>>]
      ELSE [panic |-> FALSE,
            lines |-> StringAll(SortFunc(SetToSeq(
                        UNION {Range(res[i].out) : i \in DOMAIN ps})))]

\* and writePrefixesToFileV6
NormalizeV6(ps) == StringAll(SortFunc(ps))

\* a /24 is split into itself, and a file written in full is a fixed point of
\* its writer
Idempotent ==
  /\ (split.in.fam = 4 /\ split.in.bits = TargetLen) =>
       (~split.res.panic /\ split.res.out = <<split.in>>)
  /\ WroteV4 =>
       (NormalizeV4(v4Prefixes).lines = fileV4.lines
        /\ NormalizeV4(ParseAll(fileV4.lines)) =
             [panic |-> FALSE, lines |-> fileV4.lines])
  /\ WroteV6 =>
       (NormalizeV6(v6Prefixes) = fileV6.lines
        /\ NormalizeV6(ParseAll(fileV6.lines)) = fileV6.lines)

\* C11: processPrefixTo24 returns an IPv4 /24 block as the one block of its
\* result, and the blocks of a prefix file that was written in full, given to
\* the writer of their family again, give the lines of the file again.
C11_Idempotent == []Idempotent

C11_Witness ==
  /\ WroteV4
  /\ WroteV6
  /\ split.in.bits = TargetLen
  /\ pc = "fetched"

FetchFailedLogged(k) == Entry("WARN", "fetch failed", k) \in log

TerminalFetchError == Entry("ERROR", "fetching prefixes failed", retries) \in log

\* C12: fetchPrefixesWithRetry never makes more than retries attempts; an
\* attempt is made only from inside the loop, one at a time, and only while
\* every attempt before it has failed; the attempt that succeeds ends the loop
\* with its records; while the loop runs a next step exists, and once retries
\* attempts have failed that step is the return of the terminal error.
C12_RetryBounded ==
  /\ [](attempt <= retries)
  /\ [](pc = "fetch" => ENABLED (FetchAttempt \/ FetchGiveUp))
  /\ [][attempt' # attempt =>
          /\ pc = "fetch"
          /\ attempt' = attempt + 1
          /\ lastErr = attempt
          /\ \A k \in 1..attempt : FetchFailedLogged(k)]_vars
  /\ [][(attempt' # attempt /\ lastErr' = 0) =>
          (pc' = "filter" /\ prefixes' = ParseBody(respBody'))]_vars
  /\ [][(pc = "fetch" /\ attempt = retries) =>
          (pc' = "fetched" /\ attempt' = attempt /\ lastErr = retries
           /\ TerminalFetchError')]_vars
  /\ [](TerminalFetchError =>
          (attempt = retries /\ \A k \in 1..retries : FetchFailedLogged(k)))

C12_Witness ==
  /\ pc = "fetched"
  /\ attempt = retries
  /\ lastErr = retries
  /\ TerminalFetchError

FetchSucceeded == attempt > 0 /\ lastErr = 0

Parseable(line) == line.ok

SkippedLineLogged == Entry("WARN", "skipping invalid JSON line", 0) \in log

\* C13: after an attempt that succeeded the records returned are the lines of
\* the response that unmarshal, in the order of the response, a warning is
\* logged when a line was dropped, and the response of one malformed line
\* followed by one valid line gives the one valid record.
C13_MalformedLinesSkipped ==
  FetchSucceeded =>
    LET good == SelectSeq(respBody, Parseable)
    IN  /\ Len(prefixes) = Len(good)
        /\ \A i \in DOMAIN good :
             prefixes[i] = [CIDR |-> good[i].CIDR, ASN |-> good[i].ASN]
        /\ (Len(good) < Len(respBody)) => SkippedLineLogged
        /\ (Len(respBody) = 2 /\ ~respBody[1].ok /\ respBody[2].ok) =>
             prefixes = <<[CIDR |-> respBody[2].CIDR, ASN |-> respBody[2].ASN]>>

C13_Witness ==
  /\ pc = "filter"
  /\ FetchSucceeded
  /\ Len(respBody) = 2
  /\ ~respBody[1].ok
  /\ respBody[2].ok
  /\ Len(prefixes) = 1
  /\ SkippedLineLogged

IsTarget(asn) == \E k \in DOMAIN asnsToFilter : asnsToFilter[k] = asn

TargetV4(rec) == IsTarget(rec.ASN) /\ rec.CIDR.fam = 4

TargetV6(rec) == IsTarget(rec.ASN) /\ rec.CIDR.fam = 6

Classified == FetchSucceeded /\ pc # "filter"

\* C14: the v4 output of filterPrefixesByASN is the blocks of the records with
\* a target ASN and an IPv4 address, in the order of the records and one per
\* record, the v6 output the same for IPv6; no other record gives a block.
C14_FilterExact ==
  Classified =>
    LET sel4 == SelectSeq(prefixes, TargetV4)
        sel6 == SelectSeq(prefixes, TargetV6)
    IN  /\ v4Prefixes = [i \in 1..Len(sel4) |-> sel4[i].CIDR]
        /\ v6Prefixes = [i \in 1..Len(sel6) |-> sel6[i].CIDR]
        /\ \A i \in DOMAIN v4Prefixes : v4Prefixes[i].fam = 4
        /\ \A i \in DOMAIN v6Prefixes : v6Prefixes[i].fam = 6

C14_Witness ==
  /\ pc = "wait"
  /\ Len(prefixes) = 2
  /\ ~IsTarget(prefixes[1].ASN)
  /\ TargetV4(prefixes[2])
  /\ v4Prefixes = <<prefixes[2].CIDR>>
  /\ v6Prefixes = <<>>

\* C15: no step taken before the fetch has returned, and no step of a run
\* whose fetch ended with the terminal error, changes either prefix file, and
\* in such a run neither writer is ever started.
C15_FilesKeptOnFetchFailure ==
  /\ [][(pc \in {"main", "fetch"} \/ TerminalFetchError \/ TerminalFetchError') =>
          (fileV4' = fileV4 /\ fileV6' = fileV6)]_vars
  /\ [](TerminalFetchError => (pcW4 = "idle" /\ pcW6 = "idle"))

C15_Witness ==
  /\ TerminalFetchError
  /\ pc = "exited"
  /\ fileV4 = [exists |-> TRUE, lines |-> StringAll(OldV4)]
  /\ fileV6 = [exists |-> TRUE, lines |-> StringAll(OldV6)]

\* startSetupNftables has rendered and written the document
Rendered == pc \in {"load", "enable", "verify"} \/ cmds # <<>>

ListRead(file) == IF readPrefixes(file).err THEN <<>> ELSE readPrefixes(file).prefixes

HasLine(doc, text) == \E i \in DOMAIN doc : doc[i].t = text

\* C16: a document on disk holds the rule on @allowed_ipv4 exactly when it
\* declares the set allowed_ipv4, and the document startSetupNftables rendered
\* declares that set exactly when the v4 list it read is not empty; the same
\* for allowed_ipv6.
C16_SetsDeclaredIffUsed ==
  /\ (nftConf.exists /\ nftConf.doc # <<>>) =>
       /\ HasLine(nftConf.doc, "ip saddr @allowed_ipv4 accept")
             <=> HasLine(nftConf.doc, "set allowed_ipv4 {")
       /\ HasLine(nftConf.doc, "ip6 saddr @allowed_ipv6 accept")
             <=> HasLine(nftConf.doc, "set allowed_ipv6 {")
  /\ Rendered =>
       /\ HasLine(nftConf.doc, "set allowed_ipv4 {") <=> Len(ListRead(fileV4)) # 0
       /\ HasLine(nftConf.doc, "set allowed_ipv6 {") <=> Len(ListRead(fileV6)) # 0

C16_Witness ==
  /\ Rendered
  /\ HasLine(nftConf.doc, "set allowed_ipv4 {")
  /\ HasLine(nftConf.doc, "ip saddr @allowed_ipv4 accept")
  /\ ~HasLine(nftConf.doc, "set allowed_ipv6 {")
  /\ ~HasLine(nftConf.doc, "ip6 saddr @allowed_ipv6 accept")

\* the lines c .. of doc are the input chain in the claim's order
InputChainAt(doc, c) ==
  LET k4 == IF HasLine(doc, "ip saddr @allowed_ipv4 accept") THEN 1 ELSE 0
      k6 == IF HasLine(doc, "ip6 saddr @allowed_ipv6 accept") THEN 1 ELSE 0
  IN  /\ c + 5 + k4 + k6 <= Len(doc)
      /\ doc[c].t = "chain input {"
      /\ doc[c + 1].t = "type filter hook input priority filter; policy drop;"
      /\ doc[c + 2].t = "ct state established,related accept"
      /\ doc[c + 3].t = "iif lo accept"
      /\ doc[c + 4].t = "tcp dport accept"
      /\ k4 = 1 => doc[c + 5].t = "ip saddr @allowed_ipv4 accept"
      /\ k6 = 1 => doc[c + 5 + k4].t = "ip6 saddr @allowed_ipv6 accept"
      /\ doc[c + 5 + k4 + k6].t = "}"

\* C17: every document on disk has one input chain, whose lines are, in this
\* order, the policy drop, the accept of established and related, the accept
\* of loopback, the accept on the port, the accept from allowed_ipv4 when
\* present, the accept from allowed_ipv6 when present; the accept on the port
\* is in every document.
C17_InputChainOrder ==
  (nftConf.exists /\ nftConf.doc # <<>>) =>
    /\ Cardinality({i \in DOMAIN nftConf.doc : nftConf.doc[i].t = "chain input {"}) = 1
    /\ Cardinality({i \in DOMAIN nftConf.doc : nftConf.doc[i].t = "tcp dport accept"}) = 1
    /\ \E c \in DOMAIN nftConf.doc : InputChainAt(nftConf.doc, c)

C17_Witness ==
  /\ Rendered
  /\ sshdPort = 2222
  /\ HasLine(nftConf.doc, "ip saddr @allowed_ipv4 accept")
  /\ HasLine(nftConf.doc, "ip6 saddr @allowed_ipv6 accept")
  /\ \E c \in DOMAIN nftConf.doc : InputChainAt(nftConf.doc, c)

\* the lines of sshd_config that match ^Port\s+(\d+), and those of them whose
\* number is a 16-bit port
PortLines == {i \in DOMAIN sshdConfig.lines : sshdConfig.lines[i].isPort}

UsablePortLines == {i \in PortLines : sshdConfig.lines[i].num <= 65535}

First(S) == CHOOSE i \in S : \A j \in S : i <= j

PortRead == pc \notin {"main", "fetch", "filter", "wait", "fetched", "findport"}

DefaultPortLogged == Entry("WARN", "using default port", defaultSSHPort) \in log

RenderedPorts ==
  {nftConf.doc[i].port : i \in {j \in DOMAIN nftConf.doc : nftConf.doc[j].t = "tcp dport accept"}}

\* C19: the port of the accept rule in the document startSetupNftables
\* rendered is the port findSSHPort took from sshd_config when it took one
\* (2222 from a file whose first Port line is Port 2222) and 22 when the file
\* is absent or gave none; in that case the warning is logged, and in every
\* case the step after findSSHPort is initializeNftablesConf, with nothing
\* returned.
C19_PortOrDefault ==
  /\ [](Rendered =>
          IF sshdConfig.exists /\ UsablePortLines # {}
          THEN RenderedPorts = {sshdConfig.lines[First(UsablePortLines)].num}
          ELSE RenderedPorts = {defaultSSHPort} /\ DefaultPortLogged)
  /\ [](Rendered /\ sshdConfig.exists /\ PortLines # {}
          /\ sshdConfig.lines[First(PortLines)].num = 2222
          => RenderedPorts = {2222})
  /\ [][pc = "findport" => (pc' = "init" /\ ret' = "" /\ exit' = "running")]_vars

C19_Witness ==
  /\ Rendered
  /\ sshdConfig.exists
  /\ PortLines = {}
  /\ RenderedPorts = {defaultSSHPort}
  /\ DefaultPortLogged
  /\ Len(cmds) = 3

\* C20 as claimed: whenever findSSHPort returned a port, it is the number on
\* the first line of sshd_config that matches the Port pattern.
C20_FirstMatchWins ==
  (PortRead /\ ~DefaultPortLogged) =>
    (PortLines # {} /\ sshdPort = sshdConfig.lines[First(PortLines)].num)

\* C20, amended: whenever findSSHPort returned a port, it is the number on the
\* first matching line whose number is a 16-bit port, whatever the later lines
\* hold; a matching line before it is warned about; and findSSHPort returns
\* no port exactly when no matching line holds a 16-bit port.
C20_FirstUsableMatchWins ==
  PortRead =>
    /\ ~DefaultPortLogged <=> (sshdConfig.exists /\ UsablePortLines # {})
    /\ ~DefaultPortLogged =>
         /\ sshdPort = sshdConfig.lines[First(UsablePortLines)].num
         /\ First(PortLines) < First(UsablePortLines) =>
              Entry("WARN", "fail to parse Port", 0) \in log

C20_Witness ==
  /\ PortRead
  /\ Len(sshdConfig.lines) = 2
  /\ PortLines = {1, 2}
  /\ UsablePortLines = {2}
  /\ sshdPort = sshdConfig.lines[2].num
  /\ ~DefaultPortLogged

\* initializeNftablesConf has returned
InitConfDone == PortRead /\ pc # "init"

\* it returned the error of os.Create or of WriteString
ConfWriteFailed == ret \in {"error creating nftables.conf", "failed writing nftables.conf"}

ReadFailedLogged(n) == Entry("ERROR", "failed to read prefixes file", n) \in log

OnlyV4Present == fileV4.exists /\ Len(ListRead(fileV4)) # 0 /\ ~fileV6.exists

OnlyV6Present == fileV6.exists /\ Len(ListRead(fileV6)) # 0 /\ ~fileV4.exists

\* C21: with one prefix file missing and the other giving a non-empty list,
\* initializeNftablesConf logs the failed read, does not return "prefix lists
\* empty", and, unless creating or writing the document fails, leaves the
\* document with the set and the rule of the present family only, after
\* which nft -f is the next step and the first command run.
C21_OneFamilyMissing ==
  ((OnlyV4Present \/ OnlyV6Present) /\ InitConfDone) =>
    /\ ret # "prefix lists empty"
    /\ OnlyV4Present => ReadFailedLogged(6)
    /\ OnlyV6Present => ReadFailedLogged(4)
    /\ ~ConfWriteFailed =>
         /\ Rendered
         /\ HasLine(nftConf.doc, "set allowed_ipv4 {") <=> OnlyV4Present
         /\ HasLine(nftConf.doc, "ip saddr @allowed_ipv4 accept") <=> OnlyV4Present
         /\ HasLine(nftConf.doc, "set allowed_ipv6 {") <=> OnlyV6Present
         /\ HasLine(nftConf.doc, "ip6 saddr @allowed_ipv6 accept") <=> OnlyV6Present
         /\ pc = "load" => ENABLED Load
         /\ pc # "load" => (cmds # <<>> /\ cmds[1].name = "nft -f")

C21_Witness ==
  /\ OnlyV6Present
  /\ pc = "enable"
  /\ cmds = <<[name |-> "nft -f", ok |-> TRUE]>>
  /\ HasLine(nftConf.doc, "set allowed_ipv6 {")
  /\ ~HasLine(nftConf.doc, "set allowed_ipv4 {")

CommandOrder == <<"nft -f", "systemctl enable --now", "nft list ruleset">>

\* C22: the commands run so far are the first ones of nft -f, systemctl
\* enable --now, nft list ruleset, in that order and each once, every one but
\* the last having succeeded; when the first of them runs the document at
\* /etc/nftables.conf is exactly what this run rendered, nothing of an earlier
\* document left; a step runs one command and leaves the document alone.
C22_StepsInOrder ==
  /\ [](/\ Len(cmds) <= Len(CommandOrder)
        /\ \A i \in DOMAIN cmds : cmds[i].name = CommandOrder[i]
        /\ \A i \in 1..(Len(cmds) - 1) : cmds[i].ok)
  /\ [](cmds # <<>> =>
          nftConf = [exists |-> TRUE,
                     doc |-> renderNftablesTemplate(sshdPort, ListRead(fileV4),
                                                    ListRead(fileV6))])
  /\ [][cmds' # cmds =>
          /\ \E c \in [name : Range(CommandOrder), ok : BOOLEAN] : cmds' = Append(cmds, c)
          /\ Rendered
          /\ nftConf' = nftConf]_vars

C22_Witness ==
  /\ Len(cmds) = 3
  /\ sshdPort = 2222
  /\ fileV4.exists
  /\ fileV6.exists
  /\ nftConf.doc = renderNftablesTemplate(2222, OldV4, OldV6)

\* err and the log of the retry loop agree with the attempts made
LastErrorWrapped ==
  /\ \A n \in 0..retries :
       Entry("ERROR", "fetching prefixes failed", n) \in log => n = retries
  /\ (pc = "fetch" /\ attempt > 0) => lastErr = attempt
  /\ \A k \in 1..attempt : (k < attempt \/ lastErr # 0) => FetchFailedLogged(k)
  /\ \A e \in log : e.msg = "fetch failed" => (e.lvl = "WARN" /\ e.n \in 1..attempt)

\* C23: the error startFetchPrefixes logs after the loop is the error of
\* attempt number retries, the last one made; while the loop runs err is the
\* error of the latest attempt; and every attempt that failed has its warning,
\* with its number, in the log.
C23_LastErrorWrapped == []LastErrorWrapped

C23_Witness ==
  /\ pc = "findport"
  /\ TerminalFetchError
  /\ \A k \in 1..retries : FetchFailedLogged(k)

WriterAtRest(p) == p \in {"idle", "done"}

SetupPhase == pc \in {"findport", "init", "load", "enable", "verify", "return"}

\* the join waits for both writers, and a writer touches its own file only
JoinBeforeComplete ==
  /\ Entry("INFO", "processing complete", 0) \in log => (pcW4 = "done" /\ pcW6 = "done")
  /\ (pc = "fetched" \/ SetupPhase) => (WriterAtRest(pcW4) /\ WriterAtRest(pcW6))
  /\ pcW4 \in {"idle", "start"} => \E d \in Disks : fileV4 = d.v4
  /\ pcW6 \in {"idle", "start"} => \E d \in Disks : fileV6 = d.v6

\* C24: "processing complete" is logged, and startFetchPrefixes has returned,
\* only with both writers finished; the setup phase runs only with both
\* writers finished or never started; and until a writer has opened its own
\* file that file is as the earlier run left it, whatever the other writer
\* has done by then.
C24_JoinBeforeComplete == []JoinBeforeComplete

\* the join after the v4 writer failed and the v6 writer wrote its file
C24_Witness ==
  /\ pc = "fetched"
  /\ Entry("INFO", "processing complete", 0) \in log
  /\ Entry("ERROR", "writing IPv4 prefixes", 0) \in log
  /\ WroteV6

EnableFailedAfterLoad ==
  /\ Len(cmds) >= 2
  /\ cmds[1] = [name |-> "nft -f", ok |-> TRUE]
  /\ cmds[2] = [name |-> "systemctl enable --now", ok |-> FALSE]

\* C27: once nft -f has succeeded and systemctl enable --now has failed,
\* startSetupNftables returns the enable error, no further command is run
\* (neither nft list ruleset nor one that would undo the load), and the
\* document stays as it was rendered.
C27_EnableFailureNoRollback ==
  /\ [](EnableFailedAfterLoad =>
          /\ cmds = <<cmds[1], cmds[2]>>
          /\ pc \in {"return", "exited"}
          /\ ret = "failed to enable and start nftables services"
          /\ nftConf = [exists |-> TRUE,
                        doc |-> renderNftablesTemplate(sshdPort, ListRead(fileV4),
                                                       ListRead(fileV6))])
  /\ [][EnableFailedAfterLoad => (cmds' = cmds /\ nftConf' = nftConf /\ ret' = ret)]_vars

C27_Witness ==
  /\ EnableFailedAfterLoad
  /\ pc = "exited"
  /\ ret = "failed to enable and start nftables services"

FetchCompleted == TerminalFetchError \/ Entry("INFO", "processing complete", 0) \in log

WriteFailed ==
  \/ Entry("ERROR", "writing IPv4 prefixes", 0) \in log
  \/ Entry("ERROR", "writing IPv6 prefixes", 0) \in log

\* a setup run came to its end and its fetch had failed or a write had failed
SetupEndedAfterFailure ==
  /\ mode = "setup"
  /\ pc = "exited"
  /\ exit = "ok"
  /\ TerminalFetchError \/ WriteFailed

ListsEmpty == Len(ListRead(fileV4)) = 0 /\ Len(ListRead(fileV6)) = 0

RenderedAndApplied ==
  /\ cmds # <<>>
  /\ cmds[1].name = "nft -f"
  /\ nftConf = [exists |-> TRUE,
                doc |-> renderNftablesTemplate(sshdPort, ListRead(fileV4),
                                               ListRead(fileV6))]

\* C28 as claimed: the setup phase runs only after the fetch has completed,
\* and a setup run whose fetch or whose write failed has, at its end (the
\* creation and the write of the document not failing), rendered the document
\* from the prefix files on disk and run nft -f.
C28_SetupRunsAfterFailedFetch ==
  /\ SetupPhase => FetchCompleted
  /\ (SetupEndedAfterFailure /\ ~ConfWriteFailed) => RenderedAndApplied

\* setup after a failed fetch or write: the document and the commands, or
\* the refusal of two empty lists
SetupRunsUnlessListsEmpty ==
  /\ SetupPhase => FetchCompleted
  /\ SetupEndedAfterFailure => (ret # "" \/ Len(cmds) = Len(CommandOrder))
  /\ (SetupEndedAfterFailure /\ ~ConfWriteFailed) =>
       IF ListsEmpty
       THEN ret = "prefix lists empty" /\ cmds = <<>>
       ELSE RenderedAndApplied

\* C28, amended: the same, but when both lists read from disk are empty the
\* setup phase ends with "prefix lists empty" and no command run.
C28_SetupRunsUnlessListsEmpty == []SetupRunsUnlessListsEmpty

C28_Witness ==
  /\ SetupEndedAfterFailure
  /\ TerminalFetchError
  /\ ~ListsEmpty
  /\ RenderedAndApplied
  /\ Len(cmds) = Len(CommandOrder)

\* C29: processPrefixTo24 of an IPv4 block of length at most 24 does not fail:
\* no integer it gives to intToIP needs more than four bytes.
C29_NoOverflow ==
  (split.in.fam = 4 /\ split.in.bits <= TargetLen) => ~split.res.panic

GoodLine(line) == line.len >= 0

HasBadLine(file) ==
  file.exists /\ \E i \in DOMAIN file.lines : file.lines[i] # BlankLine /\ ~GoodLine(file.lines[i])

\* the list of a family as the claim gives it: empty when the file is missing
\* or holds a line that is not a CIDR, else the file's CIDRs
ListOf(file) ==
  IF ~file.exists \/ HasBadLine(file) THEN <<>>
  ELSE ParseAll(SelectSeq(file.lines, GoodLine))

\* C30: when initializeNftablesConf has returned, a family whose file holds a
\* non-blank line that is not a CIDR has its read error logged and counts as
\* empty, its valid lines included; with both families empty in that sense
\* the run ends with "prefix lists empty", and otherwise the document is the
\* rendering of the two lists so understood.
C30_ReadAllOrNothing ==
  InitConfDone =>
    /\ HasBadLine(fileV4) => ReadFailedLogged(4)
    /\ HasBadLine(fileV6) => ReadFailedLogged(6)
    /\ ~ConfWriteFailed =>
         IF Len(ListOf(fileV4)) = 0 /\ Len(ListOf(fileV6)) = 0
         THEN ret = "prefix lists empty" /\ cmds = <<>>
         ELSE nftConf = [exists |-> TRUE,
                         doc |-> renderNftablesTemplate(sshdPort, ListOf(fileV4),
                                                        ListOf(fileV6))]

C30_Witness ==
  /\ Rendered
  /\ HasBadLine(fileV4)
  /\ \E i \in DOMAIN fileV4.lines : GoodLine(fileV4.lines[i])
  /\ ReadFailedLogged(4)
  /\ ~HasLine(nftConf.doc, "set allowed_ipv4 {")
  /\ HasLine(nftConf.doc, "set allowed_ipv6 {")

\* ------------------------------------------------------------ C25, C26
\* the strings the workers send for the prefixes given: for each prefix its
\* /24 blocks, up to the block at which its worker panics
FanSent ==
  UNION {Range(StringAll(processPrefixTo24(v4Prefixes[w]).out)) : w \in DOMAIN v4Prefixes}

\* the fan-out writer started its workers, and its run is over without a
\* write error: it returned, or the process ended
FanOver ==
  /\ wk # <<>>
  /\ exit = "panic" \/ pcCollect = "done"
  /\ Entry("ERROR", "writing IPv4 prefixes", 0) \notin log

\* C25: in the fan-out variant the set collected and the lines written are
\* the same for every interleaving of the workers: when the writer's run is
\* over the set holds the strings the workers send for the input and the file
\* holds them sorted.
C25_SameForEveryInterleaving ==
  FanOver => /\ uniquePrefixes = FanSent
             /\ fileV4.lines = SortStrings(SetToSeq(FanSent))

\* the two ends of one input, a /24 and a /25: the process ended after the
\* writer returned with the /24's line in the file, and before the collector
\* received anything
FanMixedInput == v4Prefixes = <<Pfx4(198, 51, 99, 0, 24), Pfx4(198, 51, 100, 128, 25)>>

C25_EndedAfterReturn ==
  /\ FanMixedInput
  /\ exit = "panic"
  /\ fileV4.lines = <<PrefixString(Pfx4(198, 51, 99, 0, 24))>>

C25_EndedBeforeCollect ==
  /\ FanMixedInput
  /\ exit = "panic"
  /\ uniquePrefixes = {}
  /\ fileV4.lines = <<>>

\* no worker's code panics on the prefixes given
FanNoPanic == \A w \in DOMAIN v4Prefixes : ~processPrefixTo24(v4Prefixes[w]).panic

\* C25, for prefixes on which no worker panics
C25_SameWithoutPanic == FanNoPanic => C25_SameForEveryInterleaving

\* C25, second half: a step that changes the set is the collector's
C25_OnlyCollectorWrites ==
  [][uniquePrefixes' # uniquePrefixes => CollectRecv]_vars

\* C26: in the fan-out variant the collector loop terminates for every input
\* and interleaving: a run that started its workers stops only after the
\* channel was closed once and the writer returned.
C26_CollectorTerminates ==
  (wk # <<>> /\ ~ENABLED FanNext) => (closes = 1 /\ pcCollect = "done")

\* C26, for prefixes on which no worker panics
C26_TerminatesWithoutPanic == FanNoPanic => C26_CollectorTerminates

\* C26, the channel: closed at most once, only after every worker has
\* finished, so that no worker is left to send on it
C26_ClosedAfterWorkers ==
  /\ closes <= 1
  /\ closes > 0 => \A w \in DOMAIN wk : wk[w].pc \in {"done", "panic"}

\* more values sent than the channel holds, and the writer returned
C26_MoreThanCapacity ==
  /\ pcCollect = "done"
  /\ Cardinality(FanSent) > Len(v4Prefixes)
  /\ uniquePrefixes = FanSent

====
